---- MODULE Spec2Model ----
(***************************************************************************)
(* A model of the max31865 crate: the MAX31865 driver (src/src/lib.rs) and *)
(* the resistance-to-temperature lookup (src/src/temp_conversion.rs).      *)
(*                                                                         *)
(* Machine integers keep their width.  TLC's own integers are 32-bit, so   *)
(* 32-bit values that may wrap are computed on two 16-bit limbs <<hi, lo>>.*)
(* A Rust arithmetic overflow panics when the build has overflow checks    *)
(* (the debug profile) and wraps when it has not (the release profile);    *)
(* the profile is the variable overflow_checks, fixed by Init.             *)
(***************************************************************************)
EXTENDS Integers, Sequences, FiniteSets, TLC

VARIABLES
    overflow_checks, \* TRUE: overflow panics (debug); FALSE: it wraps (release)
    table,           \* lookup: the name of the LookupTable the call is made on
    ohm_100,         \* lookup: the argument of lookup_temperature
    temp,            \* lookup: the result of the call
    has_prev,        \* lookup: TRUE once a call before this one has returned
    prev_ohm,        \* lookup: the argument of the call before
    prev_temp,       \* lookup: the result of the call before
    lpc,             \* lookup: "call" before lookup_temperature runs, "ret" after
    driver,          \* "none": no Max31865 yet; "ready": new returned Ok;
                     \*   "panicked": a call panicked and ended the program
    ncs,             \* the level of the chip-select pin, "high" or "low"
    frame_ops,       \* bus operations issued since chip-select was last driven low
    pin_failed,      \* TRUE once an operation on the chip-select pin has failed
    calibration,     \* Max31865::calibration
    last             \* the public call that returned last: its arguments, its
                     \*   result and the pin and bus operations it issued

lookup_vars == <<table, ohm_100, temp, has_prev, prev_ohm, prev_temp, lpc>>

driver_vars == <<driver, ncs, frame_ops, pin_failed, calibration, last>>

vars == <<overflow_checks, lookup_vars, driver_vars>>

----------------------------------------------------------------------------
(* 32-bit machine arithmetic *)

Limb == 2^16
HalfLimb == 2^15
Byte == 2^8

MaxI32 == (HalfLimb - 1) * Limb + (Limb - 1)
MinI32 == -MaxI32 - 1

\* the two's complement bit pattern of an i32, as <<hi, lo>>
ToU32(x) == <<(x \div Limb) % Limb, x % Limb>>

\* the i32 a bit pattern stands for
ToI32(u) == IF u[1] >= HalfLimb THEN (u[1] - Limb) * Limb + u[2]
                                ELSE u[1] * Limb + u[2]

\* a < b on bit patterns read as unsigned numbers
LessU32(a, b) == a[1] < b[1] \/ (a[1] = b[1] /\ a[2] < b[2])

SubU32(a, b) ==
    LET borrow == IF a[2] < b[2] THEN 1 ELSE 0
    IN  <<(a[1] - b[1] - borrow) % Limb, (a[2] - b[2]) % Limb>>

AddU32(a, b) ==
    LET carry == (a[2] + b[2]) \div Limb
    IN  <<(a[1] + b[1] + carry) % Limb, (a[2] + b[2]) % Limb>>

\* the full 32-bit product of two 16-bit limbs, as <<hi, lo>>
MulLimb(x, y) ==
    LET p0 == x * (y % Byte)
        p1 == x * (y \div Byte)
        low == p0 + (p1 % Byte) * Byte
    IN  <<(p1 \div Byte) + (low \div Limb), low % Limb>>

\* a * b modulo 2^32
MulU32(a, b) ==
    LET ll == MulLimb(a[2], b[2])
        cross == (MulLimb(a[1], b[2])[2] + MulLimb(a[2], b[1])[2]) % Limb
    IN  <<(ll[1] + cross) % Limb, ll[2]>>

\* the outcome of an operation: a value, or a panic
Val(n) == [panic |-> FALSE, val |-> n]
Panic == [panic |-> TRUE, val |-> 0]

SubOverflows(a, b) == (b > 0 /\ a < MinI32 + b) \/ (b < 0 /\ a > MaxI32 + b)
AddOverflows(a, b) == (b > 0 /\ a > MaxI32 - b) \/ (b < 0 /\ a < MinI32 - b)

\* w, the wrapped product, is the exact product of a and b
MulExact(a, b, w) ==
    IF a = 0 \/ b = 0 THEN TRUE
    ELSE IF a = MinI32 THEN b = 1
    ELSE IF b = MinI32 THEN a = 1
    ELSE LET aa == IF a < 0 THEN -a ELSE a
             sb == IF a < 0 THEN -b ELSE b
         IN  w % aa = 0 /\ w \div aa = sb

\* i32 - i32, i32 + i32, i32 * i32 as the build computes them
SubI32(oc, x, y) ==
    IF x.panic \/ y.panic THEN Panic
    ELSE IF ~SubOverflows(x.val, y.val) THEN Val(x.val - y.val)
    ELSE IF oc THEN Panic
    ELSE Val(ToI32(SubU32(ToU32(x.val), ToU32(y.val))))

AddI32(oc, x, y) ==
    IF x.panic \/ y.panic THEN Panic
    ELSE IF ~AddOverflows(x.val, y.val) THEN Val(x.val + y.val)
    ELSE IF oc THEN Panic
    ELSE Val(ToI32(AddU32(ToU32(x.val), ToU32(y.val))))

MulI32(oc, x, y) ==
    IF x.panic \/ y.panic THEN Panic
    ELSE LET w == ToI32(MulU32(ToU32(x.val), ToU32(y.val)))
         IN  IF MulExact(x.val, y.val, w) THEN Val(w)
             ELSE IF oc THEN Panic
             ELSE Val(w)

\* the quotient rounded towards zero, for d > 0
TruncDivPos(n, d) == (n \div d) + (IF n < 0 /\ n % d # 0 THEN 1 ELSE 0)

\* the quotient rounded towards zero, for d # 0 and not MinI32 / -1
TruncDiv(n, d) ==
    IF d > 0 THEN TruncDivPos(n, d)
    ELSE IF d = MinI32 THEN (IF n = MinI32 THEN 1 ELSE 0)
    ELSE -TruncDivPos(n, -d)

\* i32 / i32: division by zero and MinI32 / -1 panic in every build
DivI32(x, y) ==
    IF x.panic \/ y.panic THEN Panic
    ELSE IF y.val = 0 THEN Panic
    ELSE IF x.val = MinI32 /\ y.val = -1 THEN Panic
    ELSE Val(TruncDiv(x.val, y.val))

----------------------------------------------------------------------------
(* temp_conversion.rs *)

\* the width in bits of the table's element type D
U16Table == 16
U32Table == 32

LOOKUP_TABLE_PT100_SHORT ==
    [min |-> 0, step |-> 20, width |-> U16Table,
     data |-> <<10000, 10390, 10779, 11167, 11554, 11940, 12324, 12708, 13090,
                13471, 13851, 14229, 14607, 14983>>]

LOOKUP_VEC_PT100 ==
    [min |-> -200, step |-> 20, width |-> U32Table,
     data |-> <<1852, 2710, 3554, 4388, 5211, 6026, 6833, 7633, 8427, 9216,
                10000, 10779, 11554, 12324, 13090, 13851, 14607, 15358, 16105,
                16848, 17586, 18319, 19047, 19771, 20490, 21205, 21915, 22621,
                23321, 24018, 24709, 25396, 26078, 26756, 27429, 28098, 28762,
                29421, 30075, 30725, 31371, 32012, 32648, 33279, 33906, 34528,
                35146, 35759, 36367, 36971>>]

LOOKUP_VEC_PT1000 ==
    [min |-> -200, step |-> 20, width |-> U32Table,
     data |-> <<18520, 27096, 35543, 43876, 52110, 60256, 68325, 76328, 84271,
                92160, 100000, 107794, 115541, 123242, 130897, 138505, 146068,
                153584, 161054, 168478, 175856, 183188, 190473, 197712, 204905,
                212052, 219152, 226206, 233214, 240176, 247092, 253961, 260785,
                267562, 274293, 280978, 287616, 294208, 300754, 307254, 313708,
                320116, 326477, 332792, 339061, 345284, 351460, 357590, 363674,
                369712>>]

TableNames == {"PT100_SHORT", "PT100", "PT1000"}

TableOf(name) ==
    CASE name = "PT100_SHORT" -> LOOKUP_TABLE_PT100_SHORT
      [] name = "PT100" -> LOOKUP_VEC_PT100
      [] name = "PT1000" -> LOOKUP_VEC_PT1000

\* fn interpolate(ohm_100, first, second); first and second are <<temp, ohm>>
interpolate(oc, ohm, first, second) ==
    LET numerator == MulI32(oc, SubI32(oc, Val(second[1]), Val(first[1])),
                                SubI32(oc, Val(ohm), Val(first[2])))
        denominator == SubI32(oc, Val(second[2]), Val(first[2]))
    IN  AddI32(oc, DivI32(numerator, denominator), Val(first[1]))

\* LookupToI32::lookup: self.data[ind] as i32, zero-based; out of bounds panics
lookup(t, ind) ==
    IF ind >= 0 /\ ind < Len(t.data) THEN Val(t.data[ind + 1]) ELSE Panic

\* val as u16 or val as u32, as a bit pattern
CastKey(t, val) ==
    IF t.width = U16Table THEN <<0, val % Limb>> ELSE ToU32(val)

\* the search of a sorted slice for key between the zero-based lo and hi
RECURSIVE SliceSearch(_, _, _, _)
SliceSearch(data, key, lo, hi) ==
    IF lo >= hi THEN [found |-> FALSE, pos |-> lo]
    ELSE LET mid == lo + (hi - lo) \div 2
             elem == ToU32(data[mid + 1])
         IN  IF LessU32(elem, key) THEN SliceSearch(data, key, mid + 1, hi)
             ELSE IF LessU32(key, elem) THEN SliceSearch(data, key, lo, mid)
             ELSE [found |-> TRUE, pos |-> mid]

\* LookupToI32::binary_search: Ok(pos) is found = TRUE, Err(pos) is found = FALSE
binary_search(t, val) == SliceSearch(t.data, CastKey(t, val), 0, Len(t.data))

\* (self.min as i32 + (index * self.step as usize) as i32) * 100
reverse_index(t, index) == (t.min + index * t.step) * 100

ohm_lower_bound(t) == lookup(t, 1)

\* a slip: the last sample taken for the upper bound
ohm_upper_bound_last(t) == lookup(t, Len(t.data) - 1)

ohm_upper_bound(t) == lookup(t, Len(t.data) - 2)

interpolate_index(oc, t, ohm, index) ==
    LET lo == lookup(t, index)
        hi == lookup(t, index + 1)
    IN  IF lo.panic \/ hi.panic THEN Panic
        ELSE interpolate(oc, ohm, <<reverse_index(t, index), lo.val>>,
                                  <<reverse_index(t, index + 1), hi.val>>)

\* a slip: Err(val) => val, the insertion point taken for the segment
SegmentIndexNoStepBack(t, ohm) ==
    IF ohm < ohm_lower_bound(t).val THEN 0
    ELSE IF ohm > ohm_upper_bound(t).val THEN Len(t.data) - 2
    ELSE binary_search(t, ohm).pos

\* the segment index lookup_temperature interpolates on; -1: Err(0) - 1
SegmentIndex(t, ohm) ==
    IF ohm < ohm_lower_bound(t).val THEN 0
    ELSE IF ohm > ohm_upper_bound(t).val THEN Len(t.data) - 2
    ELSE LET r == binary_search(t, ohm)
         IN  IF r.found THEN r.pos ELSE r.pos - 1

lookup_temperature(oc, t, ohm) ==
    IF ohm_lower_bound(t).panic \/ ohm_upper_bound(t).panic THEN Panic
    ELSE interpolate_index(oc, t, ohm, SegmentIndex(t, ohm))

----------------------------------------------------------------------------
(* lib.rs *)

\* enum FilterMode, enum SensorType
Filter60Hz == 0
Filter50Hz == 1
TwoOrFourWire == 0
ThreeWire == 1

\* enum Register
CONFIG == 0
RTD_MSB == 1
RTD_LSB == 2

\* const R: u8 = 0 << 7; const W: u8 = 1 << 7
R == 0
W == 128

RECURSIVE BitOr(_, _)
BitOr(a, b) ==
    IF a = 0 THEN b
    ELSE IF b = 0 THEN a
    ELSE (IF a % 2 = 1 \/ b % 2 = 1 THEN 1 ELSE 0) + 2 * BitOr(a \div 2, b \div 2)

\* x << n on a u8
Shl8(x, n) == (x * 2^n) % Byte

read_address(reg) == BitOr(reg, R)

\* a slip: the read flag on a write
write_address_read_flag(reg) == BitOr(reg, R)

write_address(reg) == BitOr(reg, W)

BoolAsU8(b) == IF b THEN 1 ELSE 0

\* the pins and the bus are collaborators: an operation on them succeeds or
\* fails, and a failed pin operation leaves the pin's level as it was.
\* ps is the chip-select pin: [ncs, frame_ops, pin_failed]

Event(op, ok, ps, tx, rx) ==
    [op |-> op, ok |-> ok, level |-> ps.ncs, nth |-> ps.frame_ops, tx |-> tx, rx |-> rx]

\* self.ncs.set_low()
set_low(ps, fails) ==
    LET after == IF fails THEN [ps EXCEPT !.pin_failed = TRUE]
                 ELSE [ps EXCEPT !.ncs = "low",
                                 !.frame_ops = IF ps.ncs = "low" THEN @ ELSE 0]
    IN  [ok |-> ~fails, ps |-> after, log |-> <<Event("set_low", ~fails, after, <<>>, <<>>)>>]

\* self.ncs.set_high()
set_high(ps, fails) ==
    LET after == IF fails THEN [ps EXCEPT !.pin_failed = TRUE]
                 ELSE [ps EXCEPT !.ncs = "high", !.frame_ops = 0]
    IN  [ok |-> ~fails, ps |-> after, log |-> <<Event("set_high", ~fails, after, <<>>, <<>>)>>]

\* self.spi.write(tx) and self.spi.transfer(tx), which receives rx
bus(op, ps, fails, tx, rx) ==
    LET after == [ps EXCEPT !.frame_ops = @ + 1]
    IN  [ok |-> ~fails, ps |-> after, log |-> <<Event(op, ~fails, after, tx, rx)>>]

\* Ok(v), Err(e), and a panic, each with the chip-select pin it leaves and
\* the operations issued
Ok(v, ps, log) ==
    [ok |-> TRUE, err |-> "none", value |-> v, panic |-> FALSE, ps |-> ps, log |-> log]
Err(e, ps, log) ==
    [ok |-> FALSE, err |-> e, value |-> 0, panic |-> FALSE, ps |-> ps, log |-> log]
Panicked(ps, log) ==
    [ok |-> FALSE, err |-> "none", value |-> 0, panic |-> TRUE, ps |-> ps, log |-> log]

\* where a register access fails: nowhere, or at one of its three operations
Faults == {"none", "set_low", "bus", "set_high"}

\* The statements of write and read_many, each ending in `?`: the function
\* returns the error as soon as one fails.  a, b, c are the results of
\* set_low, of the bus operation and of set_high.

\* self.ncs.set_high().map_err(|_| Error::PinError)?; Ok(value)
DeassertAndReturn(log, c, value) ==
    IF ~c.ok THEN Err("PinError", c.ps, log \o c.log)
    ELSE Ok(value, c.ps, log \o c.log)

\* self.spi.<op>(..).map_err(|e| Error::SPIError(e))?; then set_high
BusThenDeassert(log, b, fault, value) ==
    IF ~b.ok THEN Err("SPIError", b.ps, log \o b.log)
    ELSE DeassertAndReturn(log \o b.log, set_high(b.ps, fault = "set_high"), value)

\* self.ncs.set_low().map_err(|_| Error::PinError)?; then the bus operation
AssertThenBus(a, op, tx, rx, fault, value) ==
    IF ~a.ok THEN Err("PinError", a.ps, a.log)
    ELSE BusThenDeassert(a.log, bus(op, a.ps, fault = "bus", tx, rx), fault, value)

\* fn write(&mut self, reg, val)
write(ps, reg, val, fault) ==
    AssertThenBus(set_low(ps, fault = "set_low"), "write",
                  <<write_address(reg), val>>, <<>>, fault, 0)

\* fn read_many::<[u8; 2]>(&mut self, reg): Ok(buffer), the buffer being
\* zeroed, given the address in slice[0], and overwritten by the transfer
read_many(ps, reg, fault, rx) ==
    AssertThenBus(set_low(ps, fault = "set_low"), "transfer",
                  <<read_address(reg), 0>>, rx, fault, rx)

\* a slip: Ok(buffer[0]), the byte received while the address was sent
FirstByte(buffer) ==
    IF ~buffer.ok THEN buffer ELSE Ok(buffer.value[1], buffer.ps, buffer.log)

\* Ok(buffer[1])
SecondByte(buffer) ==
    IF ~buffer.ok THEN buffer ELSE Ok(buffer.value[2], buffer.ps, buffer.log)

\* fn read(&mut self, reg)
read(ps, reg, fault, rx) == SecondByte(read_many(ps, reg, fault, rx))

\* the configuration byte of fn configure
ConfByte(vbias, conversion_mode, one_shot, sensor_type, filter_mode) ==
    BitOr(Shl8(BoolAsU8(vbias), 7),
    BitOr(Shl8(BoolAsU8(conversion_mode), 6),
    BitOr(Shl8(BoolAsU8(one_shot), 5),
    BitOr(Shl8(sensor_type, 4), filter_mode))))

\* pub fn configure
configure(ps, vbias, conversion_mode, one_shot, sensor_type, filter_mode, fault) ==
    write(ps, CONFIG, ConfByte(vbias, conversion_mode, one_shot, sensor_type, filter_mode),
          fault)

\* Ok((msb << 8) | lsb), the shift on a u16
CombineBytes(msb, lsb) ==
    IF ~lsb.ok THEN Err(lsb.err, lsb.ps, msb.log \o lsb.log)
    ELSE Ok(BitOr((msb.value * 2^8) % Limb, lsb.value), lsb.ps, msb.log \o lsb.log)

\* a slip: the LSB register is read whatever the MSB read returned
ReadLsbRegardless(msb, in) ==
    CombineBytes(msb, read(msb.ps, RTD_LSB, in.fault2, in.rx2))

\* let lsb = self.read(Register::RTD_LSB)?, once the MSB read returned
ReadLsb(msb, in) ==
    IF ~msb.ok THEN msb
    ELSE CombineBytes(msb, read(msb.ps, RTD_LSB, in.fault2, in.rx2))

\* pub fn read_raw; in is the two accesses' faults and received bytes
read_raw(ps, in) == ReadLsb(read(ps, RTD_MSB, in.fault1, in.rx1), in)

\* the product of two u32 bit patterns is 2^32 or more
MulU32Overflows(a, b) ==
    IF a[1] # 0 /\ b[1] # 0 THEN TRUE
    ELSE IF a[1] = 0
    THEN MulLimb(a[2], b[1])[1] # 0
         \/ MulLimb(a[2], b[1])[2] + MulLimb(a[2], b[2])[1] >= Limb
    ELSE MulLimb(b[2], a[1])[1] # 0
         \/ MulLimb(b[2], a[1])[2] + MulLimb(b[2], a[2])[1] >= Limb

\* x >> 15 on a u32 bit pattern
Shr15(x) == x[1] * 2 + x[2] \div HalfLimb

\* ((raw >> 1) as u32 * self.calibration) >> 15
OhmsOf(oc, raw, calib) ==
    IF MulU32Overflows(ToU32(raw \div 2), ToU32(calib)) /\ oc THEN Panic
    ELSE Val(Shr15(MulU32(ToU32(raw \div 2), ToU32(calib))))

\* let ohms = ...; Ok(ohms), once read_raw returned
ScaleRaw(raw, ohms) ==
    IF ~raw.ok THEN raw
    ELSE IF ohms.panic THEN Panicked(raw.ps, raw.log)
    ELSE Ok(ohms.val, raw.ps, raw.log)

\* pub fn read_ohms
read_ohms(oc, ps, calib, in) ==
    ScaleRaw(read_raw(ps, in), OhmsOf(oc, read_raw(ps, in).value, calib))

\* let temp = LOOKUP_VEC_PT100.lookup_temperature(ohms as i32); Ok(temp)
ConvertOhms(ohms, t) ==
    IF ~ohms.ok THEN ohms
    ELSE IF t.panic THEN Panicked(ohms.ps, ohms.log)
    ELSE Ok(t.val, ohms.ps, ohms.log)

\* pub fn read_default_conversion
read_default_conversion(oc, ps, calib, in) ==
    ConvertOhms(read_ohms(oc, ps, calib, in),
                lookup_temperature(oc, LOOKUP_VEC_PT100, read_ohms(oc, ps, calib, in).value))

----------------------------------------------------------------------------
(* The program that owns the driver: it creates it, then makes the public  *)
(* calls in any order.  Every call runs to its return: the driver is       *)
(* single-threaded and blocking.                                           *)

\* let default_calib = 40000
default_calib == 40000

\* the most bus operations followed within one chip-select low period
MaxFrameOps == 2

\* the two bytes a transfer leaves in the buffer
RxBuffers == {<<255, 0>>, <<0, 255>>, <<0, 129>>}

\* a transfer that fails or is not reached leaves the zeroed buffer
NoRx == <<0, 0>>

Received(fault) == IF fault \in {"none", "set_high"} THEN RxBuffers ELSE {NoRx}

\* the inputs of read_raw: where each register read fails and what it
\* receives; the second read is reached only when the first succeeded
ReadInputs ==
    {[fault1 |-> "none", rx1 |-> p[1], fault2 |-> p[2], rx2 |-> p[3]] :
        p \in {q \in RxBuffers \X Faults \X (RxBuffers \cup {NoRx}) :
                 q[3] \in Received(q[2])}}
    \cup
    {[fault1 |-> p[1], rx1 |-> p[2], fault2 |-> "none", rx2 |-> NoRx] :
        p \in {q \in (Faults \ {"none"}) \X (RxBuffers \cup {NoRx}) :
                 q[2] \in Received(q[1])}}

\* reference resistances: the default, the largest whose product with a full
\* scale reading fits a u32 and the next one, and 4000 ohms
Calibrations == {default_calib, Limb * 2 + 4, Limb * 2 + 5, default_calib * 10}

NoCall == [op |-> "none", args |-> <<>>, ok |-> TRUE, err |-> "none", value |-> 0,
           panic |-> FALSE, log |-> <<>>]

Call(op, args, res) ==
    [op |-> op, args |-> args, ok |-> res.ok, err |-> res.err, value |-> res.value,
     panic |-> res.panic, log |-> res.log]

Pin == [ncs |-> ncs, frame_ops |-> frame_ops, pin_failed |-> pin_failed]

\* the call returns (or panics) with the result res
Return(op, args, res) ==
    /\ res.ps.frame_ops <= MaxFrameOps
    /\ last' = Call(op, args, res)
    /\ ncs' = res.ps.ncs
    /\ frame_ops' = res.ps.frame_ops
    /\ pin_failed' = res.ps.pin_failed
    /\ driver' = IF res.panic THEN "panicked" ELSE driver

DriverInit ==
    /\ driver = "none"
    /\ ncs \in {"high", "low"}
    /\ frame_ops = 0
    /\ pin_failed = FALSE
    /\ calibration = 0
    /\ last = NoCall

\* no driver is created while the lookup is exercised on its own
DriverIdle ==
    /\ driver = "none"
    /\ ncs = "high"
    /\ frame_ops = 0
    /\ pin_failed = FALSE
    /\ calibration = 0
    /\ last = NoCall

\* no lookup is called on its own while the driver is exercised
LookupIdle ==
    /\ table = "PT100"
    /\ ohm_100 = 0
    /\ temp = Val(0)
    /\ has_prev = FALSE
    /\ prev_ohm = 0
    /\ prev_temp = Val(0)
    /\ lpc = "idle"

Init ==
    /\ overflow_checks \in BOOLEAN
    /\ DriverInit
    /\ LookupIdle

\* pub fn new
New ==
    /\ driver = "none"
    /\ \E fails \in BOOLEAN :
         LET a == set_high(Pin, fails)
         IN  /\ last' = Call("new", <<>>,
                           IF a.ok THEN Ok(0, a.ps, a.log)
                                   ELSE Err("PinError", a.ps, a.log))
             /\ ncs' = a.ps.ncs
             /\ frame_ops' = a.ps.frame_ops
             /\ pin_failed' = a.ps.pin_failed
             /\ driver' = IF a.ok THEN "ready" ELSE "none"
             /\ calibration' = IF a.ok THEN default_calib ELSE calibration
    /\ UNCHANGED <<overflow_checks, lookup_vars>>

Configure ==
    /\ driver = "ready"
    /\ \E vbias, conversion_mode, one_shot \in BOOLEAN,
          sensor_type \in {TwoOrFourWire, ThreeWire},
          filter_mode \in {Filter60Hz, Filter50Hz},
          fault \in Faults :
         Return("configure", <<vbias, conversion_mode, one_shot, sensor_type, filter_mode>>,
                configure(Pin, vbias, conversion_mode, one_shot, sensor_type, filter_mode,
                          fault))
    /\ UNCHANGED <<overflow_checks, lookup_vars, calibration>>

\* pub fn set_calibration
SetCalibration ==
    /\ driver = "ready"
    /\ \E calib \in Calibrations :
         /\ calibration' = calib
         /\ last' = Call("set_calibration", <<calib>>, Ok(0, Pin, <<>>))
    /\ UNCHANGED <<overflow_checks, lookup_vars, driver, ncs, frame_ops, pin_failed>>

ReadRaw ==
    /\ driver = "ready"
    /\ \E in \in ReadInputs :
         Return("read_raw", <<>>, read_raw(Pin, in))
    /\ UNCHANGED <<overflow_checks, lookup_vars, calibration>>

ReadOhms ==
    /\ driver = "ready"
    /\ \E in \in ReadInputs :
         Return("read_ohms", <<>>, read_ohms(overflow_checks, Pin, calibration, in))
    /\ UNCHANGED <<overflow_checks, lookup_vars, calibration>>

ReadDefaultConversion ==
    /\ driver = "ready"
    /\ \E in \in ReadInputs :
         Return("read_default_conversion", <<>>,
                read_default_conversion(overflow_checks, Pin, calibration, in))
    /\ UNCHANGED <<overflow_checks, lookup_vars, calibration>>

\* self.rdy.is_low(): low is the level of the ready pin, and a read that
\* succeeds receives it
is_low(ps, low, fails) ==
    Event("is_low", ~fails, ps, <<>>,
          IF fails THEN <<>> ELSE <<IF low THEN "low" ELSE "high">>)

\* a slip: the ready pin taken as active high
is_ready_active_high(ps, low, fails) ==
    IF fails THEN Err("RDY::Error", ps, <<is_low(ps, low, fails)>>)
             ELSE Ok(BoolAsU8(~low), ps, <<is_low(ps, low, fails)>>)

\* pub fn is_ready(&self) -> Result<bool, RDY::Error>: the pin's own result
is_ready(ps, low, fails) ==
    IF fails THEN Err("RDY::Error", ps, <<is_low(ps, low, fails)>>)
             ELSE Ok(BoolAsU8(low), ps, <<is_low(ps, low, fails)>>)

\* is_ready borrows the driver immutably: nothing of it changes
IsReady ==
    /\ driver = "ready"
    /\ \E low \in BOOLEAN, fails \in BOOLEAN :
         last' = Call("is_ready", <<>>, is_ready(Pin, low, fails))
    /\ UNCHANGED <<overflow_checks, lookup_vars, driver, ncs, frame_ops, pin_failed,
                   calibration>>

Next ==
    \/ New
    \/ Configure
    \/ SetCalibration
    \/ ReadRaw
    \/ ReadOhms
    \/ ReadDefaultConversion
    \/ IsReady

Spec == Init /\ [][Next]_vars

----------------------------------------------------------------------------
(* The callers of lookup_temperature: one call after another on one table. *)

\* how far around every tabulated resistance the arguments are dense
Near == 2

Indices(t) == 0 .. Len(t.data) - 1

\* the largest distance from a segment's base whose product with the
\* segment's temperature span still fits an i32
SpanReach(t) == MaxI32 \div (t.step * 100)

\* arguments far outside the table: around zero, at the ends of i32, and on
\* both sides of the distances from the base of the first and of the last
\* segment at which the interpolation product overflows
EdgeOhms(t) ==
    LET first == t.data[1]
        base == t.data[Len(t.data) - 1]
    IN  {MinI32, MinI32 + first - 1, MinI32 + first, MinI32 + first + 1,
         first - SpanReach(t) - 2, first - SpanReach(t) - 1, first - SpanReach(t),
         -1, 0, 1,
         base + SpanReach(t), base + SpanReach(t) + 1, base + SpanReach(t) + 2,
         MaxI32 - 1, MaxI32}

\* the resistances test_lookup looks up
TestOhms == {0, 10000, 10390, 20000, 2000, 100000, 103900}

ProbeOhms(t) ==
    {t.data[i + 1] + d : i \in Indices(t), d \in -Near .. Near}
    \cup TestOhms
    \cup {(t.data[i] + t.data[i + 1]) \div 2 : i \in 1 .. Len(t.data) - 1}
    \cup EdgeOhms(t)

\* the argument after ohm: the next resistance, or a far one
NextOhms(t, ohm) ==
    (IF ohm \in ProbeOhms(t) /\ ohm < MaxI32 THEN {ohm + 1} ELSE {})
    \cup EdgeOhms(t)

LookupInit ==
    /\ overflow_checks \in BOOLEAN
    /\ table \in TableNames
    /\ ohm_100 \in ProbeOhms(TableOf(table))
    /\ temp = Val(0)
    /\ has_prev = FALSE
    /\ prev_ohm = 0
    /\ prev_temp = Val(0)
    /\ lpc = "call"
    /\ DriverIdle

\* the call table.lookup_temperature(ohm_100) runs and returns, or panics
LookupTemperature ==
    /\ lpc = "call"
    /\ temp' = lookup_temperature(overflow_checks, TableOf(table), ohm_100)
    /\ lpc' = "ret"
    /\ UNCHANGED <<overflow_checks, table, ohm_100, has_prev, prev_ohm, prev_temp, driver_vars>>

\* the caller makes its next call, on the next resistance or on a far one;
\* a panic has ended the program
NextLookup ==
    /\ lpc = "ret"
    /\ ~temp.panic
    /\ \E r \in NextOhms(TableOf(table), ohm_100) : ohm_100' = r
    /\ has_prev' = TRUE
    /\ prev_ohm' = ohm_100
    /\ prev_temp' = temp
    /\ lpc' = "call"
    /\ UNCHANGED <<overflow_checks, table, temp, driver_vars>>

LookupNext == LookupTemperature \/ NextLookup

LookupSpec == LookupInit /\ [][LookupNext]_vars

----------------------------------------------------------------------------
(* Properties of lookup_temperature, under LookupSpec *)

\* the temperature tabulated at the zero-based index k
TempAt(t, k) == (t.min + k * t.step) * 100

\* the mathematical value of
\*   (temp[i+1] - temp[i]) * (r - res[i]) / (res[i+1] - res[i]) + temp[i]
\* with the quotient rounded towards zero, computed without any intermediate
\* leaving the range of TLC's integers; Panic when it is no i32
ExactInterpolation(t, i, r) ==
    LET base == t.data[i + 1]
        den == t.data[i + 2] - base
        span == TempAt(t, i + 1) - TempAt(t, i)
    IN  IF SubOverflows(r, base) THEN Panic
        ELSE LET d == r - base
                 q == TruncDiv(d, den)
                 rem == d - q * den
             IN  IF q > SpanReach(t) \/ q < -SpanReach(t) THEN Panic
                 ELSE IF AddOverflows(span * q + TruncDiv(span * rem, den), TempAt(t, i))
                 THEN Panic
                 ELSE Val(span * q + TruncDiv(span * rem, den) + TempAt(t, i))

\* r lies strictly between two consecutive tabulated resistances
StrictlyInside(t, r) ==
    \E i \in 0 .. Len(t.data) - 2 : t.data[i + 1] < r /\ r < t.data[i + 2]

\* the greatest zero-based index whose resistance is at most r
Bracket(t, r) ==
    CHOOSE i \in Indices(t) :
        /\ t.data[i + 1] <= r
        /\ \A j \in Indices(t) : t.data[j + 1] <= r => j <= i

Returned == lpc = "ret"

\* C6: for a resistance strictly between two consecutive tabulated
\* resistances, lookup_temperature returns the truncated linear interpolation
\* between the two bracketing table points, on every shipped table.
C6_InterpolatesInside ==
    (Returned /\ StrictlyInside(TableOf(table), ohm_100)) =>
        /\ temp = ExactInterpolation(TableOf(table), Bracket(TableOf(table), ohm_100),
                                     ohm_100)
        /\ (table = "PT100" /\ ohm_100 = 10390) => temp = Val(1001)
        /\ (table = "PT100" /\ ohm_100 = 20000) => temp = Val(26636)
        /\ (table = "PT100" /\ ohm_100 = 2000) => temp = Val(-19656)
        /\ (table = "PT1000" /\ ohm_100 = 103900) => temp = Val(1000)

C6_Witness ==
    /\ Returned /\ table = "PT100" /\ ohm_100 = 20000
    /\ StrictlyInside(TableOf(table), ohm_100)
    /\ temp = Val(26636)

\* C7: lookup_temperature is monotonically non-decreasing: of two calls on one
\* table, the call with the smaller resistance returns the smaller (or equal)
\* temperature, wherever the two resistances lie.
C7_Monotone ==
    (Returned /\ has_prev) =>
        /\ ~temp.panic
        /\ prev_ohm <= ohm_100 => prev_temp.val <= temp.val
        /\ ohm_100 <= prev_ohm => temp.val <= prev_temp.val

\* C8: lookup_temperature is total: for every i32 resistance it returns a
\* temperature, with no arithmetic overflow, division by zero, index
\* underflow or out-of-bounds access on the way.
C8_Total ==
    Returned =>
        /\ ~temp.panic
        /\ ~lookup_temperature(TRUE, TableOf(table), ohm_100).panic

\* C9: a resistance below the first tabulated resistance gets the truncated
\* interpolation formula of samples 0 and 1, one above the last tabulated
\* resistance that of the last two samples (wherever that value is an i32).
C9_Extrapolates ==
    LET t == TableOf(table)
        n == Len(t.data)
    IN  /\ (Returned /\ ohm_100 < t.data[1] /\ ~ExactInterpolation(t, 0, ohm_100).panic)
              => temp = ExactInterpolation(t, 0, ohm_100)
        /\ (Returned /\ ohm_100 > t.data[n] /\ ~ExactInterpolation(t, n - 2, ohm_100).panic)
              => temp = ExactInterpolation(t, n - 2, ohm_100)

StrictlyIncreasing(data) == \A i \in 1 .. Len(data) - 1 : data[i] < data[i + 1]

\* C11: LOOKUP_VEC_PT100 and LOOKUP_VEC_PT1000 tabulate -200 degC to +800 degC
\* in 20 degC steps with strictly increasing resistances: the first sample is
\* at -20000, the last sample, (min + (len - 1) * step) * 100, is at 80000, and
\* lookup_temperature of the last sample's resistance returns that temperature.
C11_FullRange ==
    table \in {"PT100", "PT1000"} =>
        LET t == TableOf(table) IN
        /\ t.step = 20
        /\ StrictlyIncreasing(t.data)
        /\ reverse_index(t, 0) = -20000
        /\ reverse_index(t, Len(t.data) - 1) = 80000
        /\ (Returned /\ ohm_100 = t.data[Len(t.data)]) => temp = Val(80000)

\* C12: LOOKUP_TABLE_PT100_SHORT covers 0 degC to 130 degC in steps of 10 degC:
\* lookup_temperature of the k-th sample (from 0) returns k * 1000, so
\* 10000 -> 0, 13851 -> 10000 and 14983 -> 13000.
C12_ShortTable ==
    (Returned /\ table = "PT100_SHORT") =>
        \A k \in Indices(LOOKUP_TABLE_PT100_SHORT) :
            ohm_100 = LOOKUP_TABLE_PT100_SHORT.data[k + 1] => temp = Val(k * 1000)

----------------------------------------------------------------------------
(* Properties of the driver, under Spec *)

RegisterOps == {"configure", "read_raw", "read_ohms", "read_default_conversion"}

\* the bus operations among the operations the last call issued
BusEvents == SelectSeq(last.log, LAMBDA e : e.op \in {"write", "transfer"})

\* C1: once new has succeeded, chip-select is high whenever a register
\* operation returns, also when it returns the error of a failed bus write or
\* transfer.  (Stated for the returns in which no operation on the pin itself
\* failed: a pin that cannot be driven cannot be restored by any driver.)
C1_ChipSelectRestored ==
    (driver = "ready" /\ last.op \in RegisterOps /\ last.err # "PinError") => ncs = "high"

\* C2: every register access is chip-select low, one bus operation,
\* chip-select high; no bus operation is issued while chip-select is high and
\* none is the second one of a chip-select low period.  (Stated for the runs
\* in which no operation on the chip-select pin has failed.)
C2_Framed ==
    (last.op \in RegisterOps /\ ~pin_failed) =>
        \A i \in DOMAIN last.log :
            last.log[i].op \in {"write", "transfer"} =>
                /\ last.log[i].level = "low"
                /\ last.log[i].nth = 1
                /\ i > 1 /\ last.log[i - 1].op = "set_low"
                /\ i < Len(last.log) /\ last.log[i + 1].op = "set_high"

\* the configuration byte as the sum of its fields' weights
ConfValue(args) ==
    BoolAsU8(args[1]) * 128 + BoolAsU8(args[2]) * 64 + BoolAsU8(args[3]) * 32
    + args[4] * 16 + args[5]

\* C3: a successful configure issues exactly one bus write, of the two bytes
\* [0x80, conf] with conf = vbias<<7 | continuous<<6 | one_shot<<5 |
\* wiring<<4 | filter; configure(true, true, false, ThreeWire, Filter50Hz)
\* writes 0b11010001.
C3_ConfigureWrite ==
    (last.op = "configure" /\ last.ok) =>
        /\ Len(BusEvents) = 1
        /\ BusEvents[1].op = "write"
        /\ BusEvents[1].tx = <<128, ConfValue(last.args)>>
        /\ last.args = <<TRUE, TRUE, FALSE, ThreeWire, Filter50Hz>>
              => BusEvents[1].tx[2] = 209

C3_Witness ==
    /\ last.op = "configure" /\ last.ok
    /\ last.args = <<TRUE, TRUE, FALSE, ThreeWire, Filter50Hz>>
    /\ BusEvents = <<last.log[2]>>
    /\ last.log[2].tx = <<128, 209>>

RawOf(log) == log[2].rx[2] * 256 + log[5].rx[2]

\* the mathematical value of ((raw >> 1) * c) >> 15, for c below 2^31
ExactOhms(raw, c) ==
    (raw \div 2) * (c \div HalfLimb) + ((raw \div 2) * (c % HalfLimb)) \div HalfLimb

\* C5: read_ohms returns exactly ((raw >> 1) * c) >> 15 for the calibration c
\* in effect, whatever u32 c is: the product neither overflows nor wraps.
C5_ExactOhms ==
    (last.op = "read_ohms" /\ Len(last.log) = 6 /\ \A i \in 1 .. 6 : last.log[i].ok) =>
        /\ ~last.panic
        /\ last.value = ExactOhms(RawOf(last.log), calibration)

\* C13: is_ready returns true exactly when the ready pin reads low and false
\* when it reads high; it performs one pin read and nothing else: no bus
\* operation, no change of chip-select or of the calibration; a failed pin
\* read is returned as the pin's own error, never as a bus error.
C13_ReadyPoll ==
    /\ [](last.op = "is_ready" =>
            /\ Len(last.log) = 1 /\ last.log[1].op = "is_low"
            /\ BusEvents = <<>>
            /\ ~last.panic
            /\ last.ok = last.log[1].ok
            /\ last.ok => /\ last.log[1].rx \in {<<"low">>, <<"high">>}
                          /\ last.value = 1 <=> last.log[1].rx = <<"low">>
                          /\ last.value = 0 <=> last.log[1].rx = <<"high">>
            /\ ~last.ok => last.err = "RDY::Error"
            /\ last.err \notin {"SPIError", "PinError"})
    /\ [][last'.op = "is_ready" =>
            /\ ncs' = ncs /\ frame_ops' = frame_ops /\ pin_failed' = pin_failed
            /\ calibration' = calibration /\ driver' = driver]_vars

\* polls that found the pin low, found it high, and could not read it, the
\* first while a failed bus operation had left chip-select low
C13_Witness ==
    /\ last.op = "is_ready" /\ last.ok /\ last.value = 1
    /\ last.log[1].rx = <<"low">> /\ ncs = "low" /\ calibration # default_calib

\* the failed bus operations of the last call
FailedBus ==
    {i \in DOMAIN last.log : last.log[i].op \in {"write", "transfer"} /\ ~last.log[i].ok}

\* C14: no retry and no continuation after a failure: when a bus operation
\* fails inside configure, read_raw, read_ohms or read_default_conversion, the
\* call returns the SPI error and issues no further bus operation; if the MSB
\* register read fails, the LSB register read is never issued and no value is
\* produced; and no register operation changes the calibration.
C14_NoContinuation ==
    /\ []((last.op \in RegisterOps /\ FailedBus # {}) =>
            /\ ~last.ok /\ ~last.panic
            /\ last.err = "SPIError"
            /\ last.value = 0
            /\ Cardinality(FailedBus) = 1
            /\ \A i \in FailedBus :
                 /\ \A j \in DOMAIN last.log :
                      j > i => last.log[j].op \notin {"write", "transfer"}
                 /\ last.log[i].tx = <<read_address(RTD_MSB), 0>> =>
                      \A j \in DOMAIN last.log :
                          last.log[j].tx # <<read_address(RTD_LSB), 0>>)
    /\ [][last'.op \in RegisterOps => calibration' = calibration]_vars

\* a read_raw whose MSB register read failed on the bus, under a calibration
\* that had been set
C14_Witness ==
    /\ last.op = "read_raw" /\ last.err = "SPIError"
    /\ Len(last.log) = 2 /\ last.log[2].op = "transfer" /\ ~last.log[2].ok
    /\ last.log[2].tx = <<read_address(RTD_MSB), 0>>
    /\ calibration # default_calib

====
